---- MODULE Spec2Model ----
(***************************************************************************)
(* Model of the chess-engine analysis subsystem of HoloCoach: the          *)
(* sandboxed (WASM worker) StockfishService with its process-wide instance *)
(* pool, and the NativeStockfishService that drives a child process.       *)
(*                                                                         *)
(* JavaScript runs each handler (a call, a timer callback, a message       *)
(* callback, together with the promise continuations it releases) to       *)
(* completion, so each action below is one such handler.  The engine is    *)
(* the environment: it answers the commands it was sent, in order, after   *)
(* an arbitrary delay, or never (a hung engine).                           *)
(***************************************************************************)
EXTENDS Integers, Sequences, FiniteSets, TLC

(* ------------------------------ bounds -------------------------------- *)
\* StockfishService objects that exist
NumSessions == 2
\* analyze() calls made on the sandboxed Sessions, in total
MaxReq == 2
\* destroy() calls made on the sandboxed Sessions, in total, while only the pool
\* is exercised
MaxDestroy == 2
\* destroy() calls made on a sandboxed Session that is also asked to analyse
MaxSessionDestroy == 1
\* stockfish-initialize requests made of the main process
MaxInitCalls == 2
\* the engine's raw centipawn scores are -MaxCp..MaxCp
MaxCp == 20
\* the engine's raw mate scores are mate -MaxMate..MaxMate, without mate 0
MaxMate == 20
\* the longest list of move qualities an accuracy is computed from
MaxQualities == 4
\* the most moves of a game handed to analyzeGame
MaxMoves == 2
\* the most info lines the engine prints during one analysis
MaxInfoLines == 2
\* the games the chess store is handed
NumGames == 2
\* loadGame calls made on the chess store
MaxLoads == 2
\* analysis runs the chess store starts
MaxRuns == 2
\* the RateLimiter's configuration: config.maxRequests tokens per
\* config.timeWindow milliseconds
maxRequests == 2
timeWindow == 4
\* the longest the clock runs on, in milliseconds, without a refill being tried
MaxElapsed == 5
\* acquire() calls made on the RateLimiter
MaxAcquires == 4

(* ------------------------- program constants -------------------------- *)
MAX_INSTANCES == 1
\* CLASSIFICATION_THRESHOLDS
BEST_LOSS_THRESHOLD == 50
OKAY_LOSS_THRESHOLD == 120
INACCURACY_LOSS_THRESHOLD == 250
MATE_CAP == 1000
TINY_SIGN_FLIP_THRESHOLD == 250

Sessions == 1..NumSessions
Reqs == 1..MaxReq
\* the request identity of the warm-up analysis that initialize() runs on Session s
WarmUp(s) == 0 - s
AllReqs == Reqs \cup {WarmUp(s) : s \in Sessions}
NoReq == 0

(* --------------------------- values ----------------------------------- *)
\* an optional number (undefined in the source) is a sequence of length 0 or 1
Undefined == <<>>
Some(x) == <<x>>

\* Partial<StockfishAnalysis> = {}
EmptyAnalysis ==
  [evaluation |-> Undefined, bestMove |-> "", depth |-> Undefined, mate |-> Undefined]

\* one token of an engine line split on ' ': a word, or a numeral with its value
Word(w) == [w |-> w, n |-> 0]
Num(n) == [w |-> "#", n |-> n]

\* a FEN string by the properties isValidFEN and the resolver read from it
Fen(parts, rows, kings, turn) ==
  [parts |-> parts, rows |-> rows, kings |-> kings, turn |-> turn]
WhiteFen == Fen(6, 8, TRUE, "w")
BlackFen == Fen(6, 8, TRUE, "b")
ShortFen == Fen(5, 8, TRUE, "w")
Fens == {WhiteFen, BlackFen, ShortFen}
\* the start position warmUpEngine analyses
StartFen == WhiteFen

\* info lines the engine may print during a search
InfoFull == <<Word("info"), Word("depth"), Num(5), Word("score"), Word("cp"), Num(30),
              Word("pv"), Word("e2e4"), Word("e7e5")>>
InfoLines == {InfoFull}
\* the move of a bestmove line
BestMoves == {"e2e4"}

\* what an analyze() call has come to
Pending ==
  [kind |-> "pending", error |-> "", evaluation |-> 0, bestMove |-> "", depth |-> 0,
   mate |-> Undefined]
Rejected(err) == [Pending EXCEPT !.kind = "rejected", !.error = err]
Resolved(a) ==
  [kind |-> "resolved", error |-> "", evaluation |-> a.evaluation, bestMove |-> a.bestMove,
   depth |-> a.depth, mate |-> a.mate]

VARIABLES
  activeInstances,   \* StockfishService.activeInstances (static)
  wasm,              \* the StockfishService objects, their timers and their engines
  reqFen,            \* the position of each analyze() call made so far
  reqSess,           \* the Session each analyze() call was made on
  outcome,           \* what each analyze() call (and warm-up) has come to
  nextReq,           \* identity of the next analyze() call
  native,            \* the NativeStockfishService object, its timers and its process
  calc               \* a score on its way from the engine's line to the caller's result

vars == <<activeInstances, wasm, reqFen, reqSess, outcome, nextReq, native, calc>>

(* ----------------------- StockfishService (WASM) ---------------------- *)

\* a StockfishService after construction, with no timer set and no engine
NewService ==
  [worker |-> FALSE, isReady |-> FALSE, currentAnalysis |-> EmptyAnalysis,
   resolver |-> NoReq, isAnalyzing |-> FALSE, analysisQueue |-> <<>>,
   watchdogTimer |-> NoReq,
   \* pending setTimeout / setInterval callbacks
   startTimers |-> {}, intervals |-> {}, destroyTimers |-> 0,
   \* where initialize() stands
   initPc |-> "none",
   \* the engine behind the worker: acknowledgements owed, searches accepted
   uciokOwed |-> FALSE, readyokOwed |-> FALSE, engSearch |-> <<>>,
   \* history: admissions and releases of the pool slot, destroy() calls, go commands
   admissions |-> 0, releases |-> 0, destroyCalls |-> 0, goSent |-> {}]

canCreateInstance == activeInstances < MAX_INSTANCES

\* parseInt of the token after a keyword
parseInt(tok) == tok.n

RECURSIVE parseInfoFrom(_, _, _)
\* the for loop of parseInfo from index i
parseInfoFrom(cur, parts, i) ==
  IF i > Len(parts) THEN cur
  ELSE LET part == parts[i].w IN
    IF part = "depth" /\ i + 1 <= Len(parts)
      THEN parseInfoFrom([cur EXCEPT !.depth = Some(parseInt(parts[i + 1]))], parts, i + 1)
    ELSE IF part = "score"
      THEN LET j == i + 1 IN
        IF j <= Len(parts) /\ parts[j].w = "cp" /\ j + 1 <= Len(parts)
          THEN parseInfoFrom([cur EXCEPT !.evaluation = Some(parseInt(parts[j + 1])),
                                         !.mate = Undefined], parts, j + 1)
        ELSE IF j <= Len(parts) /\ parts[j].w = "mate" /\ j + 1 <= Len(parts)
          THEN LET mateIn == parseInt(parts[j + 1])
                   absMate == IF mateIn < 0 THEN 0 - mateIn ELSE mateIn IN
               parseInfoFrom([cur EXCEPT !.mate = Some(absMate),
                                         !.evaluation = Some(IF mateIn > 0 THEN 10000 - mateIn
                                                             ELSE (0 - 10000) - absMate)],
                             parts, j + 1)
        ELSE parseInfoFrom(cur, parts, j + 1)
    ELSE IF part = "pv" /\ i + 1 <= Len(parts)
      THEN [cur EXCEPT !.bestMove = parts[i + 1].w]
    ELSE parseInfoFrom(cur, parts, i + 1)

RECURSIVE parseInfoKeepsMateFrom(_, _, _)
\* the for loop of a parseInfo whose cp branch leaves the mate distance alone
parseInfoKeepsMateFrom(cur, parts, i) ==
  IF i > Len(parts) THEN cur
  ELSE LET part == parts[i].w IN
    IF part = "depth" /\ i + 1 <= Len(parts)
      THEN parseInfoKeepsMateFrom([cur EXCEPT !.depth = Some(parseInt(parts[i + 1]))], parts, i + 1)
    ELSE IF part = "score"
      THEN LET j == i + 1 IN
        IF j <= Len(parts) /\ parts[j].w = "cp" /\ j + 1 <= Len(parts)
          THEN parseInfoKeepsMateFrom([cur EXCEPT !.evaluation = Some(parseInt(parts[j + 1]))],
                                      parts, j + 1)
        ELSE IF j <= Len(parts) /\ parts[j].w = "mate" /\ j + 1 <= Len(parts)
          THEN LET mateIn == parseInt(parts[j + 1])
                   absMate == IF mateIn < 0 THEN 0 - mateIn ELSE mateIn IN
               parseInfoKeepsMateFrom([cur EXCEPT !.mate = Some(absMate),
                                         !.evaluation = Some(IF mateIn > 0 THEN 10000 - mateIn
                                                             ELSE (0 - 10000) - absMate)],
                             parts, j + 1)
        ELSE parseInfoKeepsMateFrom(cur, parts, j + 1)
    ELSE IF part = "pv" /\ i + 1 <= Len(parts)
      THEN [cur EXCEPT !.bestMove = parts[i + 1].w]
    ELSE parseInfoKeepsMateFrom(cur, parts, i + 1)

\* a parseInfo whose cp branch leaves the mate distance alone
parseInfoKeepsMate(cur, parts) == parseInfoKeepsMateFrom(cur, parts, 2)

\* parseInfo: the loop starts at the token after "info"
parseInfo(cur, parts) == parseInfoFrom(cur, parts, 2)

\* convertAnalysis, without the SAN rendering of the move
convertAnalysis(cur) ==
  [evaluation |-> IF cur.evaluation = Undefined THEN 0 ELSE cur.evaluation[1],
   bestMove |-> cur.bestMove,
   depth |-> IF cur.depth = Undefined \/ cur.depth[1] = 0 THEN 1 ELSE cur.depth[1],
   mate |-> cur.mate]

\* a resolver that hands the engine's result on as it is
normalizeNever(isBlackTurn, analysis) == analysis

\* the resolver performAnalysis stores: the result seen from White
normalize(isBlackTurn, analysis) ==
  LET a1 == IF isBlackTurn THEN [analysis EXCEPT !.evaluation = 0 - @] ELSE analysis IN
  IF isBlackTurn /\ a1.mate # Undefined
    THEN [a1 EXCEPT !.evaluation = IF a1.evaluation > 0 THEN (0 - 10000) + a1.mate[1]
                                   ELSE 10000 - a1.mate[1]]
    ELSE a1

isValidFEN(fen) ==
  /\ fen.parts = 6
  /\ fen.rows = 8
  /\ fen.kings
  /\ fen.turn \in {"w", "b"}

\* the position of request r: a warm-up analyses the start position
FenOf(r) == IF r < 0 THEN StartFen ELSE reqFen[r]

\* performAnalysis(fen, depth) called for request r, up to its setTimeout
performAnalysis(w, r) ==
  [w EXCEPT !.currentAnalysis = EmptyAnalysis,
            !.resolver = r,
            !.startTimers = @ \cup {r}]

\* processQueue
processQueue(w) ==
  IF w.isAnalyzing \/ w.analysisQueue = <<>> THEN w
  ELSE performAnalysis([w EXCEPT !.analysisQueue = Tail(@), !.isAnalyzing = TRUE],
                       Head(w.analysisQueue))

\* what runs once the promise of request r has resolved: initialize() returns
\* after its warm-up; the finally block of processQueue after a queued task
afterResolve(w, r) ==
  IF r < 0 THEN [w EXCEPT !.initPc = IF @ = "warmup" THEN "ok" ELSE @]
  ELSE processQueue([w EXCEPT !.isAnalyzing = FALSE])

\* clearInterval(this.watchdogTimer); this.watchdogTimer = null
clearWatchdog(w) ==
  [w EXCEPT !.intervals = @ \ {w.watchdogTimer}, !.watchdogTimer = NoReq]

(* ----------------------- NativeStockfishService ------------------------ *)

\* the Session tag of the analyze() calls made on the native service
NativeSession == NumSessions + 1

\* a NativeStockfishService after construction, with no timer set and no process
NewNative ==
  [process |-> FALSE, isReady |-> FALSE, currentAnalysis |-> EmptyAnalysis,
   \* resolvers: for each id "none", "plain" (the promise's resolve) or
   \* "normalizing" (the wrapper analyze() installs); rejecters: the ids present
   resolvers |-> [r \in Reqs |-> "none"], rejecters |-> {},
   currentId |-> NoReq, analysisQueue |-> <<>>, isAnalyzing |-> FALSE,
   \* pending setTimeout callbacks: the 50 ms delay and the 10 s timeout of each
   \* task, the 100 ms kill timers of cleanup()
   delayTimers |-> {}, timeoutTimers |-> {}, killTimers |-> 0,
   \* where initialize() stands
   initPc |-> "none",
   \* the child process: "none", "running" or "exited"; what it owes
   proc |-> "none", uciokOwed |-> FALSE, readyokOwed |-> FALSE, engSearch |-> <<>>,
   \* history: cleanup() calls made by destroy(), go commands written, and what
   \* the stockfish-initialize handler has answered so far
   destroyCalls |-> 0, goSent |-> {}, initReplies |-> <<>>]

\* no score is under way
NoCalc == [fn |-> "none"]

\* the services before any call
InitServices ==
  /\ activeInstances = 0
  /\ wasm = [s \in Sessions |-> NewService]
  /\ reqFen = [r \in Reqs |-> WhiteFen]
  /\ reqSess = [r \in Reqs |-> 0]
  /\ outcome = [r \in AllReqs |-> Pending]
  /\ nextReq = 1
  /\ native = NewNative

Init ==
  /\ InitServices
  /\ calc = NoCalc

\* initialize() without the check of the instance limit
InitializeUnchecked(s) ==
  /\ wasm[s].initPc \in {"none", "refused"}
  /\ wasm' = [wasm EXCEPT ![s].worker = TRUE,
                          ![s].initPc = "handshake",
                          ![s].uciokOwed = TRUE,
                          ![s].readyokOwed = TRUE,
                          ![s].admissions = @ + 1]
  /\ activeInstances' = activeInstances + 1
  /\ UNCHANGED <<reqFen, reqSess, outcome, nextReq, native, calc>>

\* initialize(): refused at the instance limit; else the worker is created, the
\* slot taken, and uci and isready are sent before the first poll of isReady
Initialize(s) ==
  /\ wasm[s].initPc \in {"none", "refused"}
  /\ IF activeInstances >= MAX_INSTANCES
       THEN /\ wasm' = [wasm EXCEPT ![s].initPc = "refused"]
            /\ UNCHANGED activeInstances
       ELSE /\ wasm' = [wasm EXCEPT ![s].worker = TRUE,
                                    ![s].initPc = "handshake",
                                    ![s].uciokOwed = TRUE,
                                    ![s].readyokOwed = TRUE,
                                    ![s].admissions = @ + 1]
            /\ activeInstances' = activeInstances + 1
  /\ UNCHANGED <<reqFen, reqSess, outcome, nextReq, native, calc>>

\* new Worker() throws: nothing was created, the catch block finds no worker
InitializeNoWorker(s) ==
  /\ wasm[s].initPc \in {"none", "refused"}
  /\ activeInstances < MAX_INSTANCES
  /\ wasm' = [wasm EXCEPT ![s].initPc = "failed"]
  /\ UNCHANGED <<activeInstances, reqFen, reqSess, outcome, nextReq, native, calc>>

\* checkReady finds isReady set: the options and ucinewgame are sent and
\* warmUpEngine calls performAnalysis directly
CheckReady(s) ==
  /\ wasm[s].initPc = "handshake"
  /\ wasm[s].isReady
  /\ wasm' = [wasm EXCEPT ![s] = performAnalysis([@ EXCEPT !.initPc = "warmup"], WarmUp(s))]
  /\ UNCHANGED <<activeInstances, reqFen, reqSess, outcome, nextReq, native, calc>>

\* handleMessage('uciok')
UciOk(s) ==
  /\ wasm[s].worker
  /\ wasm[s].uciokOwed
  /\ wasm' = [wasm EXCEPT ![s].isReady = TRUE, ![s].uciokOwed = FALSE]
  /\ UNCHANGED <<activeInstances, reqFen, reqSess, outcome, nextReq, native, calc>>

\* handleMessage('readyok')
ReadyOk(s) ==
  /\ wasm[s].worker
  /\ wasm[s].readyokOwed
  /\ ~wasm[s].uciokOwed
  /\ wasm' = [wasm EXCEPT ![s].isReady = TRUE, ![s].readyokOwed = FALSE]
  /\ UNCHANGED <<activeInstances, reqFen, reqSess, outcome, nextReq, native, calc>>

\* analyze(fen): throws before queueing, or queues the task and calls processQueue
Analyze(s, fen) ==
  /\ nextReq <= MaxReq
  /\ LET r == nextReq IN
     /\ nextReq' = r + 1
     /\ reqFen' = [reqFen EXCEPT ![r] = fen]
     /\ reqSess' = [reqSess EXCEPT ![r] = s]
     /\ IF ~wasm[s].worker \/ ~wasm[s].isReady
          THEN /\ outcome' = [outcome EXCEPT ![r] = Rejected("Stockfish not initialized")]
               /\ UNCHANGED wasm
        ELSE IF ~isValidFEN(fen)
          THEN /\ outcome' = [outcome EXCEPT ![r] = Rejected("Invalid FEN position")]
               /\ UNCHANGED wasm
        ELSE /\ wasm' = [wasm EXCEPT ![s] = processQueue([@ EXCEPT !.analysisQueue = Append(@, r)])]
             /\ UNCHANGED outcome
  /\ UNCHANGED <<activeInstances, native, calc>>

\* the setTimeout(100) of performAnalysis: position and go are sent (to a live
\* worker) and the watchdog interval is set
StartTimer(s, r) ==
  /\ r \in wasm[s].startTimers
  /\ wasm' = [wasm EXCEPT ![s].startTimers = @ \ {r},
                          ![s].engSearch = IF wasm[s].worker THEN Append(@, r) ELSE @,
                          ![s].goSent = IF wasm[s].worker THEN @ \cup {r} ELSE @,
                          ![s].watchdogTimer = r,
                          ![s].intervals = @ \cup {r}]
  /\ UNCHANGED <<activeInstances, reqFen, reqSess, outcome, nextReq, native, calc>>

\* the watchdog has something to use
hasPartial(cur) == cur.bestMove # "" /\ cur.evaluation # Undefined

\* a watchdog interval callback that finds idle > idleLimit or total > hardLimit
\* (a callback that finds neither changes nothing).  performAnalysis resets both
\* clocks, so neither limit is exceeded while one of its 100 ms timers is pending.
WatchdogFire(s, r) ==
  /\ r \in wasm[s].intervals
  /\ wasm[s].startTimers = {}
  /\ LET w == wasm[s]
         w1 == clearWatchdog(w)
         owner == w.resolver IN
     IF hasPartial(w.currentAnalysis) /\ owner # NoReq
       THEN /\ outcome' = [outcome EXCEPT ![owner] =
                 Resolved(normalize(FenOf(owner).turn = "b", convertAnalysis(w.currentAnalysis)))]
            /\ wasm' = [wasm EXCEPT ![s] = afterResolve([w1 EXCEPT !.resolver = NoReq], owner)]
       ELSE /\ wasm' = [wasm EXCEPT ![s] = w1]
            /\ UNCHANGED outcome
  /\ UNCHANGED <<activeInstances, reqFen, reqSess, nextReq, native, calc>>

\* handleMessage of an info line of the search the engine is running
EngineInfo(s, line) ==
  /\ wasm[s].worker
  /\ wasm[s].engSearch # <<>>
  /\ wasm' = [wasm EXCEPT ![s].currentAnalysis = parseInfo(@, line)]
  /\ UNCHANGED <<activeInstances, reqFen, reqSess, outcome, nextReq, native, calc>>

\* the bestmove branch of handleMessage without the move of the line
bestMoveAnalysisWithoutMove(cur, mv, hasResolver) ==
  LET c2 == IF cur.evaluation = Undefined THEN [cur EXCEPT !.evaluation = Some(0)] ELSE cur
      c3 == IF c2.depth = Undefined \/ c2.depth[1] = 0 THEN [c2 EXCEPT !.depth = Some(1)] ELSE c2
  IN IF hasResolver THEN c3 ELSE cur

\* the accumulator as the bestmove branch of handleMessage leaves it
bestMoveAnalysis(cur, mv, hasResolver) ==
  LET c1 == IF mv # "" /\ mv # "(none)" THEN [cur EXCEPT !.bestMove = mv] ELSE cur
      c2 == IF c1.evaluation = Undefined THEN [c1 EXCEPT !.evaluation = Some(0)] ELSE c1
      c3 == IF c2.depth = Undefined \/ c2.depth[1] = 0 THEN [c2 EXCEPT !.depth = Some(1)] ELSE c2
  IN IF hasResolver THEN c3 ELSE c1

\* handleMessage of the bestmove line that ends the engine's running search
EngineBestMove(s, mv) ==
  /\ wasm[s].worker
  /\ wasm[s].engSearch # <<>>
  /\ LET w == wasm[s]
         owner == w.resolver
         cur == bestMoveAnalysis(w.currentAnalysis, mv, owner # NoReq)
         w1 == [clearWatchdog(w) EXCEPT !.engSearch = Tail(@), !.currentAnalysis = cur] IN
     IF owner # NoReq
       THEN /\ outcome' = [outcome EXCEPT ![owner] =
                 Resolved(normalize(FenOf(owner).turn = "b", convertAnalysis(cur)))]
            /\ wasm' = [wasm EXCEPT ![s] = afterResolve([w1 EXCEPT !.resolver = NoReq], owner)]
       ELSE /\ wasm' = [wasm EXCEPT ![s] = w1]
            /\ UNCHANGED outcome
  /\ UNCHANGED <<activeInstances, reqFen, reqSess, nextReq, native, calc>>

\* destroy() that gives a slot back whenever it finds no worker
DestroyAlwaysReleases(s) ==
  /\ LET w == wasm[s]
         w1 == [clearWatchdog(w) EXCEPT !.analysisQueue = <<>>,
                                        !.resolver = NoReq,
                                        !.isReady = FALSE,
                                        !.isAnalyzing = FALSE,
                                        !.destroyCalls = @ + 1] IN
     IF w.worker
       THEN /\ wasm' = [wasm EXCEPT ![s] = [w1 EXCEPT !.destroyTimers = @ + 1]]
            /\ UNCHANGED activeInstances
       ELSE /\ wasm' = [wasm EXCEPT ![s] = [w1 EXCEPT !.releases = @ + 1]]
            /\ activeInstances' = activeInstances - 1
  /\ UNCHANGED <<reqFen, reqSess, outcome, nextReq, native, calc>>

\* destroy()
Destroy(s) ==
  /\ LET w == wasm[s]
         w1 == [clearWatchdog(w) EXCEPT !.analysisQueue = <<>>,
                                        !.resolver = NoReq,
                                        !.isReady = FALSE,
                                        !.isAnalyzing = FALSE,
                                        !.destroyCalls = @ + 1] IN
     IF w.worker
       THEN /\ wasm' = [wasm EXCEPT ![s] = [w1 EXCEPT !.destroyTimers = @ + 1]]
            /\ UNCHANGED activeInstances
     ELSE IF w.isReady
       THEN /\ wasm' = [wasm EXCEPT ![s] = [w1 EXCEPT !.releases = @ + 1]]
            /\ activeInstances' = activeInstances - 1
     ELSE /\ wasm' = [wasm EXCEPT ![s] = w1]
          /\ UNCHANGED activeInstances
  /\ UNCHANGED <<reqFen, reqSess, outcome, nextReq, native, calc>>

\* the setTimeout(100) of destroy(): the worker is terminated (the engine and
\* whatever it still owed are gone with it) and the slot is released
DestroyTimer(s) ==
  /\ wasm[s].destroyTimers > 0
  /\ IF wasm[s].worker
       THEN /\ wasm' = [wasm EXCEPT ![s].worker = FALSE,
                                    ![s].destroyTimers = @ - 1,
                                    ![s].releases = @ + 1,
                                    ![s].uciokOwed = FALSE,
                                    ![s].readyokOwed = FALSE,
                                    ![s].engSearch = <<>>]
            /\ activeInstances' = activeInstances - 1
       ELSE /\ wasm' = [wasm EXCEPT ![s].destroyTimers = @ - 1]
            /\ UNCHANGED activeInstances
  /\ UNCHANGED <<reqFen, reqSess, outcome, nextReq, native, calc>>

(* ------------------- NativeStockfishService: handlers ------------------ *)

\* the task analyze() queues for request r, up to its 50 ms delay.  Its id is
\* analysis_<Date.now()>; tasks are taken to start in different milliseconds.
nativeTaskStart(n, r) ==
  [n EXCEPT !.currentId = r,
            !.currentAnalysis = EmptyAnalysis,
            !.resolvers[r] = "plain",
            !.rejecters = @ \cup {r},
            !.delayTimers = @ \cup {r}]

\* processQueue (the task never throws, so the catch block is not entered)
nativeProcessQueue(n) ==
  IF n.isAnalyzing \/ n.analysisQueue = <<>> THEN n
  ELSE nativeTaskStart([n EXCEPT !.analysisQueue = Tail(@), !.isAnalyzing = TRUE],
                       Head(n.analysisQueue))

\* the wrapper analyze() installs over the resolver: the result seen from White
nativeNormalize(isBlackTurn, analysis) ==
  LET a1 == IF isBlackTurn THEN [analysis EXCEPT !.evaluation = 0 - @] ELSE analysis IN
  IF isBlackTurn /\ a1.mate # Undefined
    THEN [a1 EXCEPT !.evaluation = IF a1.evaluation > 0 THEN (0 - 10000) + a1.mate[1]
                                   ELSE 10000 - a1.mate[1]]
    ELSE a1

\* cleanup()
cleanup(n) ==
  [n EXCEPT !.analysisQueue = <<>>,
            !.resolvers = [r \in Reqs |-> "none"],
            !.rejecters = {},
            !.killTimers = IF n.process THEN @ + 1 ELSE @,
            !.isReady = FALSE,
            !.isAnalyzing = FALSE]

\* initialize(): the binary is missing, or the process is spawned and uci and
\* isready are written before the first poll of isReady
NativeInitialize(found) ==
  /\ native.initPc = "none"
  /\ native' = IF found
                 THEN [native EXCEPT !.process = TRUE, !.proc = "running",
                                     !.uciokOwed = TRUE, !.readyokOwed = TRUE,
                                     !.initPc = "handshake"]
                 ELSE [native EXCEPT !.initPc = "failed",
                                     !.initReplies = Append(@, "failure")]
  /\ UNCHANGED <<activeInstances, wasm, reqFen, reqSess, outcome, nextReq, calc>>

\* checkReady finds isReady set: the options are written and initialize() returns
NativeCheckReady ==
  /\ native.initPc = "handshake"
  /\ native.isReady
  /\ native' = [native EXCEPT !.initPc = "ok", !.initReplies = Append(@, "success")]
  /\ UNCHANGED <<activeInstances, wasm, reqFen, reqSess, outcome, nextReq, calc>>

\* handleStockfishInitialize when nativeStockfish is already set (by a request
\* that is still waiting, has succeeded or has failed): it answers success
HandleStockfishInitializeAgain ==
  /\ native.initPc # "none"
  /\ native.destroyCalls = 0
  /\ Len(native.initReplies) + (IF native.initPc = "handshake" THEN 1 ELSE 0) < MaxInitCalls
  /\ native' = [native EXCEPT !.initReplies = Append(@, "success")]
  /\ UNCHANGED <<activeInstances, wasm, reqFen, reqSess, outcome, nextReq, calc>>

\* handleEngineOutput('uciok')
NativeUciOk ==
  /\ native.proc = "running"
  /\ native.uciokOwed
  /\ native' = [native EXCEPT !.isReady = TRUE, !.uciokOwed = FALSE]
  /\ UNCHANGED <<activeInstances, wasm, reqFen, reqSess, outcome, nextReq, calc>>

\* handleEngineOutput('readyok')
NativeReadyOk ==
  /\ native.proc = "running"
  /\ native.readyokOwed
  /\ ~native.uciokOwed
  /\ native' = [native EXCEPT !.isReady = TRUE, !.readyokOwed = FALSE]
  /\ UNCHANGED <<activeInstances, wasm, reqFen, reqSess, outcome, nextReq, calc>>

\* analyze(fen): throws, or queues the task and calls processQueue
NativeAnalyze(fen) ==
  /\ nextReq <= MaxReq
  /\ LET r == nextReq IN
     /\ nextReq' = r + 1
     /\ reqFen' = [reqFen EXCEPT ![r] = fen]
     /\ reqSess' = [reqSess EXCEPT ![r] = NativeSession]
     /\ IF ~native.process \/ ~native.isReady
          THEN /\ outcome' = [outcome EXCEPT ![r] = Rejected("Native Stockfish not initialized")]
               /\ UNCHANGED native
          ELSE /\ native' = nativeProcessQueue([native EXCEPT !.analysisQueue = Append(@, r)])
               /\ UNCHANGED outcome
  /\ UNCHANGED <<activeInstances, wasm, calc>>

\* the task of request r after its 50 ms delay: position and go are written (to
\* a live process), the 10 s timeout is set and the resolver is wrapped
NativeDelay(r) ==
  /\ r \in native.delayTimers
  /\ native' = [native EXCEPT !.delayTimers = @ \ {r},
                              !.engSearch = IF native.process /\ native.proc = "running"
                                            THEN Append(@, r) ELSE @,
                              !.goSent = IF native.process THEN @ \cup {r} ELSE @,
                              !.timeoutTimers = @ \cup {r},
                              !.resolvers[r] = IF @ = "none" THEN "none" ELSE "normalizing"]
  /\ UNCHANGED <<activeInstances, wasm, reqFen, reqSess, outcome, nextReq, calc>>

\* the 10 s setTimeout of request r
NativeTimeout(r) ==
  /\ r \in native.timeoutTimers
  /\ IF native.resolvers[r] # "none"
       THEN /\ outcome' = [outcome EXCEPT ![r] =
                 IF @.kind = "pending" THEN Rejected("Analysis timeout") ELSE @]
            /\ native' = nativeProcessQueue(
                 [native EXCEPT !.timeoutTimers = @ \ {r},
                                !.resolvers[r] = "none",
                                !.rejecters = @ \ {r},
                                !.isAnalyzing = FALSE])
       ELSE /\ native' = [native EXCEPT !.timeoutTimers = @ \ {r}]
            /\ UNCHANGED outcome
  /\ UNCHANGED <<activeInstances, wasm, reqFen, reqSess, nextReq, calc>>

\* handleEngineOutput of an info line of the search the engine is running
NativeInfo(line) ==
  /\ native.proc = "running"
  /\ native.engSearch # <<>>
  /\ native' = [native EXCEPT !.currentAnalysis = parseInfo(@, line)]
  /\ UNCHANGED <<activeInstances, wasm, reqFen, reqSess, outcome, nextReq, calc>>

\* the accumulator as a StockfishAnalysis (the object itself is handed over)
asAnalysis(cur) ==
  [evaluation |-> cur.evaluation[1], bestMove |-> cur.bestMove,
   depth |-> cur.depth[1], mate |-> cur.mate]

\* handleEngineOutput of the bestmove line that ends the engine's running search
NativeBestMove(mv) ==
  /\ native.proc = "running"
  /\ native.engSearch # <<>>
  /\ LET id == native.currentId
         has == id # NoReq /\ native.resolvers[id] # "none"
         cur == bestMoveAnalysis(native.currentAnalysis, mv, has)
         result == IF has /\ native.resolvers[id] = "normalizing"
                     THEN nativeNormalize(FenOf(id).turn = "b", asAnalysis(cur))
                     ELSE asAnalysis(cur)
         n1 == [native EXCEPT !.engSearch = Tail(@), !.isAnalyzing = FALSE] IN
     IF has
       THEN /\ outcome' = [outcome EXCEPT ![id] =
                 IF @.kind = "pending" THEN Resolved(result) ELSE @]
            /\ native' = nativeProcessQueue(
                 [n1 EXCEPT !.currentAnalysis = [cur EXCEPT !.evaluation = Some(result.evaluation)],
                            !.resolvers[id] = "none",
                            !.rejecters = @ \ {id}])
       ELSE /\ native' = nativeProcessQueue([n1 EXCEPT !.currentAnalysis = cur])
            /\ UNCHANGED outcome
  /\ UNCHANGED <<activeInstances, wasm, reqFen, reqSess, nextReq, calc>>

\* destroy()
NativeDestroy ==
  /\ native' = [cleanup(native) EXCEPT !.destroyCalls = @ + 1]
  /\ UNCHANGED <<activeInstances, wasm, reqFen, reqSess, outcome, nextReq, calc>>

\* the setTimeout(100) of cleanup(): the process is killed and forgotten
NativeKillTimer ==
  /\ native.killTimers > 0
  /\ native' = [native EXCEPT !.killTimers = @ - 1, !.process = FALSE]
  /\ UNCHANGED <<activeInstances, wasm, reqFen, reqSess, outcome, nextReq, calc>>

\* the 'exit' event of the child process (it quit, crashed or was killed):
\* cleanup() runs and no more output arrives
NativeExit ==
  /\ native.proc = "running"
  /\ native' = [cleanup(native) EXCEPT !.proc = "exited"]
  /\ UNCHANGED <<activeInstances, wasm, reqFen, reqSess, outcome, nextReq, calc>>

(* -------------- a score from the engine's line to the result ------------- *)

\* what follows "score" in an info line: cp <value> or mate <value>
RawScores ==
  [kind : {"cp"}, value : (0 - MaxCp)..MaxCp]
    \cup [kind : {"mate"}, value : ((0 - MaxMate)..MaxMate) \ {0}]

\* the info line that reports raw score sc
ScoreLine(sc) ==
  <<Word("info"), Word("depth"), Num(5), Word("score"), Word(sc.kind), Num(sc.value),
    Word("pv"), Word("e2e4")>>

\* the two services and the two sides that can be to move
Variants == {"wasm", "native"}
Turns == {"w", "b"}

\* an analysis has been started and the engine is about to report one raw score
ScoreInit ==
  /\ InitServices
  /\ calc \in {[fn |-> "score", raw |-> sc, parsed |-> FALSE, acc |-> EmptyAnalysis,
                results |-> [k \in Variants \X Turns |-> Undefined]] : sc \in RawScores}

\* handleMessage / handleEngineOutput of the info line: parseInfo fills the accumulator
ScoreInfo ==
  /\ calc.fn = "score"
  /\ ~calc.parsed
  /\ calc' = [calc EXCEPT !.acc = parseInfo(@, ScoreLine(calc.raw)), !.parsed = TRUE]
  /\ UNCHANGED <<activeInstances, wasm, reqFen, reqSess, outcome, nextReq, native>>

\* what the stored resolver of service v hands to the caller of analyze(), for a
\* position with side t to move, when bestmove e2e4 arrives on accumulator acc
Returned(v, t, acc) ==
  LET cur == bestMoveAnalysis(acc, "e2e4", TRUE) IN
  IF v = "wasm" THEN normalize(t = "b", convertAnalysis(cur))
  ELSE nativeNormalize(t = "b", asAnalysis(cur))

\* the bestmove line that follows the info line, in service v with side t to move
ScoreBestMove(v, t) ==
  /\ calc.fn = "score"
  /\ calc.parsed
  /\ calc.results[<<v, t>>] = Undefined
  /\ calc' = [calc EXCEPT !.results[<<v, t>>] = Some(Returned(v, t, calc.acc))]
  /\ UNCHANGED <<activeInstances, wasm, reqFen, reqSess, outcome, nextReq, native>>

(* ---------------- the info lines of one analysis, in order --------------- *)

\* what an info line carries: a depth or none, a score or none, a principal
\* variation or none
InfoContents ==
  [depth : {Undefined, Some(1), Some(5)},
   score : {Undefined, Some([kind |-> "cp", value |-> 0]), Some([kind |-> "cp", value |-> 30]),
            Some([kind |-> "mate", value |-> 3]), Some([kind |-> "mate", value |-> 0 - 2])},
   pv : {"", "e2e4", "d2d4"}]

\* the line that carries l, split on ' '
InfoLine(l) ==
  <<Word("info")>>
    \o (IF l.depth = Undefined THEN <<>> ELSE <<Word("depth"), Num(l.depth[1])>>)
    \o (IF l.score = Undefined THEN <<>>
        ELSE <<Word("score"), Word(l.score[1].kind), Num(l.score[1].value)>>)
    \o (IF l.pv = "" THEN <<>> ELSE <<Word("pv"), Word(l.pv), Word("e7e5")>>)

\* the info lines of an analysis
InfoSequences == UNION {[1..n -> InfoContents] : n \in 0..MaxInfoLines}

\* an analysis has been started and the engine is about to print its lines
InfoInit ==
  /\ InitServices
  /\ calc \in [fn : {"info"}, lines : InfoSequences, seen : {0}, acc : {EmptyAnalysis},
               results : {<<>>}]

\* handleMessage / handleEngineOutput of the next info line
InfoSeen ==
  /\ calc.fn = "info"
  /\ calc.seen < Len(calc.lines) /\ calc.results = <<>>
  /\ calc' = [calc EXCEPT !.acc = parseInfo(@, InfoLine(calc.lines[calc.seen + 1])),
                          !.seen = @ + 1]
  /\ UNCHANGED <<activeInstances, wasm, reqFen, reqSess, outcome, nextReq, native>>

\* the bestmove line ends the analysis: what either service hands to its caller,
\* for either side to move
InfoBestMove ==
  /\ calc.fn = "info"
  /\ calc.seen = Len(calc.lines) /\ calc.results = <<>>
  /\ calc' = [calc EXCEPT !.results = [k \in Variants \X Turns |-> Returned(k[1], k[2], calc.acc)]]
  /\ UNCHANGED <<activeInstances, wasm, reqFen, reqSess, outcome, nextReq, native>>

\* one analysis from its first info line to its result
InfoNext == InfoSeen \/ InfoBestMove

(* --------------------------- MoveClassifier ---------------------------- *)

\* Math.abs, Math.sign, Math.max and Math.min on integers
Abs(n) == IF n < 0 THEN 0 - n ELSE n
Sign(n) == IF n > 0 THEN 1 ELSE IF n < 0 THEN 0 - 1 ELSE 0
Max(a, b) == IF a >= b THEN a ELSE b
Min(a, b) == IF a <= b THEN a ELSE b

\* classifyMove with the thresholds read as strict bounds
classifyMoveStrict(evaluationBefore, evaluationAfter, evaluationBest) ==
  LET eAfter == Max(0 - MATE_CAP, Min(MATE_CAP, evaluationAfter))
      eBest == Max(0 - MATE_CAP, Min(MATE_CAP, evaluationBest))
      loss == Abs(eBest - eAfter) IN
  IF Sign(evaluationBefore) # Sign(eAfter)
       /\ Abs(eAfter - evaluationBefore) < TINY_SIGN_FLIP_THRESHOLD THEN "inaccuracy"
  ELSE IF loss < BEST_LOSS_THRESHOLD THEN "best"
  ELSE IF loss < OKAY_LOSS_THRESHOLD THEN "okay"
  ELSE IF loss < INACCURACY_LOSS_THRESHOLD THEN "inaccuracy"
  ELSE "blunder"

\* classifyMove without its sign-flip branch
classifyMoveLossOnly(evaluationBefore, evaluationAfter, evaluationBest) ==
  LET eAfter == Max(0 - MATE_CAP, Min(MATE_CAP, evaluationAfter))
      eBest == Max(0 - MATE_CAP, Min(MATE_CAP, evaluationBest))
      loss == Abs(eBest - eAfter) IN
  IF loss <= BEST_LOSS_THRESHOLD THEN "best"
  ELSE IF loss <= OKAY_LOSS_THRESHOLD THEN "okay"
  ELSE IF loss <= INACCURACY_LOSS_THRESHOLD THEN "inaccuracy"
  ELSE "blunder"

\* classifyMove that takes only opposite non-zero signs for a sign flip
classifyMoveOppositeOnly(evaluationBefore, evaluationAfter, evaluationBest) ==
  LET eAfter == Max(0 - MATE_CAP, Min(MATE_CAP, evaluationAfter)) IN
  IF Sign(evaluationBefore) * Sign(eAfter) = 0 - 1
       /\ Abs(eAfter - evaluationBefore) < TINY_SIGN_FLIP_THRESHOLD THEN "inaccuracy"
  ELSE classifyMoveLossOnly(evaluationBefore, evaluationAfter, evaluationBest)

\* a classifier lenient only when White's lead turns into Black's
classifyMoveWhiteOnly(evaluationBefore, evaluationAfter, evaluationBest) ==
  LET eAfter == Max(0 - MATE_CAP, Min(MATE_CAP, evaluationAfter)) IN
  IF evaluationBefore > 0 /\ eAfter < 0
       /\ Abs(eAfter - evaluationBefore) < TINY_SIGN_FLIP_THRESHOLD THEN "inaccuracy"
  ELSE classifyMoveLossOnly(evaluationBefore, evaluationAfter, evaluationBest)

\* MoveClassifier.classifyMove
classifyMove(evaluationBefore, evaluationAfter, evaluationBest) ==
  LET eBefore == evaluationBefore
      eAfter == Max(0 - MATE_CAP, Min(MATE_CAP, evaluationAfter))
      eBest == Max(0 - MATE_CAP, Min(MATE_CAP, evaluationBest))
      delta == eAfter - eBefore
      loss == Abs(eBest - eAfter)
      hasSignFlip == Sign(eBefore) # Sign(eAfter) IN
  IF hasSignFlip /\ Abs(delta) < TINY_SIGN_FLIP_THRESHOLD THEN "inaccuracy"
  ELSE IF loss <= BEST_LOSS_THRESHOLD THEN "best"
  ELSE IF loss <= OKAY_LOSS_THRESHOLD THEN "okay"
  ELSE IF loss <= INACCURACY_LOSS_THRESHOLD THEN "inaccuracy"
  ELSE "blunder"

\* evaluations handed to the classifier: around zero, around each threshold,
\* around the cap, the engine's mate surrogates, and small leads of either side
ClassifyEvals ==
  {0 - 9997, 0 - 1001, 0 - 1000, 0 - 251, 0 - 250, 0 - 121, 0 - 120, 0 - 51, 0 - 50, 0 - 1,
   0, 1, 50, 51, 120, 121, 250, 251, 1000, 1001, 9997,
   0 - 100, 0 - 45, 45, 100}

\* a move is about to be classified
ClassifyInit ==
  /\ InitServices
  /\ calc \in [fn : {"classify"}, before : ClassifyEvals, after : ClassifyEvals,
                best : ClassifyEvals, quality : {"none"}]

\* a call of classifyMove
ClassifyMove ==
  /\ calc.fn = "classify"
  /\ calc.quality = "none"
  /\ calc' = [calc EXCEPT !.quality = classifyMove(calc.before, calc.after, calc.best)]
  /\ UNCHANGED <<activeInstances, wasm, reqFen, reqSess, outcome, nextReq, native>>

(* ------------- Number arithmetic (IEEE 754 binary64, positive) ------------ *)

\* a natural number as its bits, lowest first, without leading zeros; a Number
\* is [m |-> bits, e |-> exponent], standing for m * 2^e, with m below 2^53
RECURSIVE Trim(_)
Trim(b) == IF b # <<>> /\ b[Len(b)] = 0 THEN Trim(SubSeq(b, 1, Len(b) - 1)) ELSE b

\* bit i of a natural
Bit(b, i) == IF i <= Len(b) THEN b[i] ELSE 0

\* the carry into bit i of the sum of two naturals: some lower bit generates a
\* carry and every bit between passes it on
Carry(a, b, i) ==
  IF \E j \in 1..(i - 1) :
       /\ Bit(a, j) = 1 /\ Bit(b, j) = 1
       /\ \A k \in (j + 1)..(i - 1) : Bit(a, k) + Bit(b, k) = 1
  THEN 1 ELSE 0

\* the sum of two naturals
BitsAdd(a, b) ==
  LET n == (IF Len(a) >= Len(b) THEN Len(a) ELSE Len(b)) + 1 IN
  Trim([i \in 1..n |-> (Bit(a, i) + Bit(b, i) + Carry(a, b, i)) % 2])

\* a natural times 2^k
ShiftLeft(b, k) == IF b = <<>> THEN <<>> ELSE [i \in 1..k |-> 0] \o b

RECURSIVE Pow2Mod(_, _)
\* 2^k modulo a small n
Pow2Mod(k, n) ==
  IF k = 0 THEN 1 % n
  ELSE LET p == Pow2Mod(k \div 2, n) IN (p * p * (IF k % 2 = 1 THEN 2 ELSE 1)) % n

RECURSIVE ValueMod(_, _)
\* a natural modulo a small n
ValueMod(b, n) ==
  IF b = <<>> THEN 0
  ELSE IF Len(b) = 1 THEN b[1] % n
  ELSE LET h == Len(b) \div 2 IN
       (ValueMod(SubSeq(b, 1, h), n)
          + Pow2Mod(h, n) * ValueMod(SubSeq(b, h + 1, Len(b)), n)) % n

\* the remainder, on division by a small n, of the bits from i up of a natural
BitsRem(b, n, i) == ValueMod(SubSeq(b, i, Len(b)), n)

\* long division of a natural by a small n: quotient and remainder
BitsDiv(b, n) ==
  [q |-> [i \in 1..Len(b) |-> (2 * BitsRem(b, n, i + 1) + b[i]) \div n],
   r |-> BitsRem(b, n, 1)]

RECURSIVE BitsOf(_)
\* the bits of a small natural, and the small natural of some bits
BitsOf(n) == IF n = 0 THEN <<>> ELSE <<n % 2>> \o BitsOf(n \div 2)

RECURSIVE ValueOf(_)
ValueOf(b) == IF b = <<>> THEN 0 ELSE Head(b) + 2 * ValueOf(Tail(b))

\* round to nearest, ties to even: the Number nearest to bits * 2^e, where
\* sticky says that the exact value lies a little above bits * 2^e
RoundToNumber(bits, e, sticky) ==
  LET b == Trim(bits)
      s == Len(b) - 53 IN
  IF s <= 0 THEN [m |-> b, e |-> IF b = <<>> THEN 0 ELSE e]
  ELSE LET kept == SubSeq(b, s + 1, Len(b))
           below == sticky \/ \E i \in 1..(s - 1) : b[i] = 1
           up == b[s] = 1 /\ (below \/ kept[1] = 1) IN
       [m |-> IF up THEN BitsAdd(kept, <<1>>) ELSE kept, e |-> e + s]

\* x + y
NumberAdd(x, y) ==
  LET e == IF x.e <= y.e THEN x.e ELSE y.e IN
  RoundToNumber(BitsAdd(ShiftLeft(x.m, x.e - e), ShiftLeft(y.m, y.e - e)), e, FALSE)

\* x / n for a small natural n (the quotient is worked out to 64 bits further
\* than x has)
NumberDiv(x, n) ==
  LET d == BitsDiv(ShiftLeft(x.m, 64), n) IN
  RoundToNumber(d.q, x.e - 64, d.r # 0)

\* x * 100
NumberTimes100(x) ==
  RoundToNumber(BitsAdd(BitsAdd(ShiftLeft(x.m, 6), ShiftLeft(x.m, 5)), ShiftLeft(x.m, 2)),
                x.e, FALSE)

\* Math.round(x): the integer nearest to x, a tie going up
MathRound(x) ==
  IF x.e >= 0 THEN ValueOf(ShiftLeft(x.m, x.e))
  ELSE LET k == 0 - x.e
           sum == BitsAdd(x.m, ShiftLeft(<<1>>, k - 1)) IN
       IF Len(sum) <= k THEN 0 ELSE ValueOf(SubSeq(sum, k + 1, Len(sum)))

\* the Number of a numeric literal tenths/10
Literal(tenths) == NumberDiv([m |-> BitsOf(tenths), e |-> 0], 10)

(* ---------------- MoveClassifier.computeAccuracyFromQualities ------------- *)

Qualities == {"best", "okay", "inaccuracy", "blunder"}

\* weights
weights ==
  [best |-> Literal(10), okay |-> Literal(8), inaccuracy |-> Literal(5), blunder |-> Literal(0)]

RECURSIVE totalWeight(_, _)
\* qualities.reduce((sum, quality) => sum + weights[quality], 0), from sum on
totalWeight(sum, qualities) ==
  IF qualities = <<>> THEN sum
  ELSE totalWeight(NumberAdd(sum, weights[Head(qualities)]), Tail(qualities))

\* computeAccuracyFromQualities
computeAccuracyFromQualities(qualities) ==
  IF Len(qualities) = 0 THEN 100
  ELSE MathRound(NumberTimes100(NumberDiv(totalWeight(Literal(0), qualities), Len(qualities))))

\* the lists of at most MaxQualities move qualities
QualityLists == UNION {[1..n -> Qualities] : n \in 0..MaxQualities}

\* the accuracy of a list of move qualities is about to be computed
AccuracyInit ==
  /\ InitServices
  /\ calc \in [fn : {"accuracy"}, qualities : QualityLists, accuracy : {0 - 1}]

\* a call of computeAccuracyFromQualities
ComputeAccuracy ==
  /\ calc.fn = "accuracy"
  /\ calc.accuracy = 0 - 1
  /\ calc' = [calc EXCEPT !.accuracy = computeAccuracyFromQualities(calc.qualities)]
  /\ UNCHANGED <<activeInstances, wasm, reqFen, reqSess, outcome, nextReq, native>>

(* ------------------------------ analyzeGame ----------------------------- *)

\* the two analyzeGame variants: StockfishService.analyzeGame and the main
\* process's handleStockfishAnalyzeGame
GameVariants == {"wasm", "native"}

\* the depth at which a variant analyses the position of every ply
gameDepth(variant) == IF variant = "wasm" THEN 12 ELSE 20

\* the depth of the analysis of the position after the best move
lookaheadDepth == 15

\* evaluations an analysis of a position returns
GameEvals == {0 - 100, 400}

\* best moves an analysis returns: one that can be played on the position, one
\* that cannot, and none
GameBestMoves == {"e2e4", "zz", ""}

\* the placeholder recorded for a position whose analysis failed
placeholder ==
  [evaluation |-> 0, bestMove |-> "", depth |-> 0, quality |-> "none", bestMoveSan |-> FALSE]

\* the games: for each move, whether chess.move plays it on the running board
Games == UNION {[1..n -> BOOLEAN] : n \in 0..MaxMoves}

\* a call of analyze(fen, depth) for a ply is made
ask(c, p, stage, depth) ==
  [c EXCEPT !.asked = Append(@, [ply |-> p, stage |-> stage, depth |-> depth])]

\* the next ply whose move the running board accepts (a move it does not accept
\* is skipped), or one past the last ply
nextMove(c, p) ==
  LET later == {q \in (p + 1)..Len(c.moves) : c.moves[q]} IN
  IF later = {} THEN Len(c.moves) + 1
  ELSE CHOOSE q \in later : \A r \in later : q <= r

\* the conversion of every recorded best move to SAN once the plies are done
convertToSan(results) ==
  [p \in DOMAIN results |->
     [results[p] EXCEPT !.bestMoveSan = (results[p].bestMove = "e2e4")]]

\* the loop goes on after ply p: to the analysis of the next ply, or to the end
continue(c, p) ==
  LET q == nextMove(c, p) IN
  IF q > Len(c.moves)
    THEN [c EXCEPT !.pc = "returned",
                   !.results = IF c.variant = "native" THEN convertToSan(@) ELSE @]
    ELSE ask([c EXCEPT !.pc = "main", !.ply = q], q, "main", gameDepth(c.variant))

\* an entry is recorded and the progress report counts moves, not positions
recordOfMoves(c, p, entry) ==
  [c EXCEPT !.results = (p :> entry) @@ @,
            !.analyzedPositions = @ + 1,
            !.progress = Append(@, <<c.analyzedPositions + 1, Len(c.moves)>>)]

\* an entry is recorded: results.set, analyzedPositions++, progress report
record(c, p, entry) ==
  [c EXCEPT !.results = (p :> entry) @@ @,
            !.analyzedPositions = @ + 1,
            !.progress = Append(@, <<c.analyzedPositions + 1, Len(c.moves) + 1>>)]

\* the catch of a failed analysis records a result that looks like a real one
analysisFailedRecordsResult(c, p) ==
  record(c, p, [placeholder EXCEPT !.evaluation = 400, !.depth = gameDepth(c.variant)])

\* the catch of a failed analysis of ply p
analysisFailed(c, p) ==
  IF c.variant = "wasm" /\ p > 0 THEN record(c, p, placeholder) ELSE c

\* the analysis of ply p may be followed by the analysis of the position after
\* the best move of ply p - 1: that entry exists, has a best move, the moves up
\* to it replay on a new board and the best move plays on it
canLookahead(c, p) ==
  /\ c.variant = "native"
  /\ p > 0
  /\ (p - 1) \in DOMAIN c.results
  /\ c.results[p - 1].bestMove # ""
  /\ \A j \in 1..(p - 1) : c.moves[j]
  /\ c.results[p - 1].bestMove = "e2e4"

\* the catch of a failed lookahead drops the entry of the ply
lookaheadFailedDrops(c, p) == c

\* the catch of a failed lookahead: the entry of ply p is recorded as analysed
lookaheadFailed(c, p) == record(c, p, c.pending)

\* analyzeGame has been called with some game
GameInit ==
  /\ InitServices
  /\ calc \in [fn : {"game"}, variant : GameVariants, moves : Games,
               initialized : BOOLEAN, pc : {"start"}, ply : {0}, pending : {placeholder},
               results : {<<>>}, analyzedPositions : {0}, progress : {<<>>},
               asked : {<<>>}, got : {<<>>}, failed : {{}}, look : {<<>>}]

\* analyzeGame finds no initialized engine: it throws, or answers null
AnalyzeGameNotInitialized ==
  /\ calc.fn = "game" /\ calc.pc = "start" /\ ~calc.initialized
  /\ calc' = [calc EXCEPT !.pc = "failed"]
  /\ UNCHANGED <<activeInstances, wasm, reqFen, reqSess, outcome, nextReq, native>>

\* analyzeGame starts: the starting position is handed to analyze()
AnalyzeGame ==
  /\ calc.fn = "game" /\ calc.pc = "start" /\ calc.initialized
  /\ calc' = ask([calc EXCEPT !.pc = "main"], 0, "main", gameDepth(calc.variant))
  /\ UNCHANGED <<activeInstances, wasm, reqFen, reqSess, outcome, nextReq, native>>

\* the analysis of the position of the current ply resolves
GameAnalysisDone ==
  /\ calc.fn = "game" /\ calc.pc = "main"
  /\ \E ev \in GameEvals, bm \in GameBestMoves :
       LET p == calc.ply
           analysis == [evaluation |-> ev, bestMove |-> bm, depth |-> gameDepth(calc.variant),
                        quality |-> "none", bestMoveSan |-> FALSE]
           c == [calc EXCEPT !.got = (p :> ev) @@ @] IN
       calc' = IF canLookahead(c, p)
                 THEN ask([c EXCEPT !.pc = "lookahead", !.pending = analysis],
                          p, "lookahead", lookaheadDepth)
                 ELSE continue(record(c, p, analysis), p)
  /\ UNCHANGED <<activeInstances, wasm, reqFen, reqSess, outcome, nextReq, native>>

\* the analysis of the position of the current ply rejects
GameAnalysisFailed ==
  /\ calc.fn = "game" /\ calc.pc = "main"
  /\ LET p == calc.ply IN
     calc' = continue(analysisFailed([calc EXCEPT !.failed = @ \cup {p}], p), p)
  /\ UNCHANGED <<activeInstances, wasm, reqFen, reqSess, outcome, nextReq, native>>

\* the analysis of the position after the best move resolves: the move played
\* is classified and the entry of the ply recorded
GameLookaheadDone ==
  /\ calc.fn = "game" /\ calc.pc = "lookahead"
  /\ \E ev \in GameEvals :
       LET p == calc.ply
           quality == classifyMove(calc.results[p - 1].evaluation, calc.pending.evaluation, ev)
           c == [calc EXCEPT !.look = (p :> [ok |-> TRUE, evaluation |-> ev]) @@ @,
                             !.pending = placeholder] IN
       calc' = continue(record(c, p, [calc.pending EXCEPT !.quality = quality]), p)
  /\ UNCHANGED <<activeInstances, wasm, reqFen, reqSess, outcome, nextReq, native>>

\* the analysis of the position after the best move rejects
GameLookaheadFailed ==
  /\ calc.fn = "game" /\ calc.pc = "lookahead"
  /\ LET p == calc.ply
         c == [calc EXCEPT !.look = (p :> [ok |-> FALSE, evaluation |-> 0]) @@ @] IN
     calc' = [continue(lookaheadFailed(c, p), p) EXCEPT !.pending = placeholder]
  /\ UNCHANGED <<activeInstances, wasm, reqFen, reqSess, outcome, nextReq, native>>

\* one analyzeGame call
GameNext ==
  \/ AnalyzeGameNotInitialized
  \/ AnalyzeGame
  \/ GameAnalysisDone
  \/ GameAnalysisFailed
  \/ GameLookaheadDone
  \/ GameLookaheadFailed

(* ------------------------------ useChessStore --------------------------- *)

\* the games; currentGame and gameAnalysis are null when they are NoGame
StoreGames == 1..NumGames
NoGame == 0

\* the positions of every game: its moves and the starting position
StorePositions == MaxMoves + 1

\* Math.round((ply / totalPlies) * 100)
progressOf(ply, totalPlies) == (200 * ply + totalPlies) \div (2 * totalPlies)

\* the runs of analyzeCurrentGame that have not returned
runsInProgress(c) == {i \in 1..Len(c.runs) : c.runs[i].pc = "running"}

\* analyzeCurrentGame up to its first await: nothing without a current game or
\* while isAnalyzingGame is set, else a run for the current game starts
analyzeCurrentGame(c) ==
  IF c.currentGame = NoGame THEN c
  ELSE IF c.isAnalyzingGame THEN c
  ELSE [c EXCEPT !.isAnalyzingGame = TRUE, !.analysisProgress = 0, !.gameAnalysis = NoGame,
                 !.runs = Append(@, [game |-> c.currentGame, ply |-> 0, pc |-> "running"])]

\* the store after creation
StoreInit ==
  /\ InitServices
  /\ calc = [fn |-> "store", currentGame |-> NoGame, games |-> {}, gameAnalysis |-> NoGame,
             isAnalyzingGame |-> FALSE, analysisProgress |-> 0, analysisTimer |-> FALSE,
             runs |-> <<>>, loads |-> 0]

\* loadGame(game)
StoreLoadGame(game) ==
  /\ calc.fn = "store" /\ calc.loads < MaxLoads
  /\ calc' = [calc EXCEPT !.currentGame = game, !.gameAnalysis = NoGame,
                          !.isAnalyzingGame = FALSE, !.analysisProgress = 0,
                          !.games = @ \cup {game}, !.analysisTimer = TRUE,
                          !.loads = @ + 1]
  /\ UNCHANGED <<activeInstances, wasm, reqFen, reqSess, outcome, nextReq, native>>

\* the 500 ms timer of loadGame calls analyzeCurrentGame
StoreAnalysisTimer ==
  /\ calc.fn = "store" /\ calc.analysisTimer
  /\ Len(calc.runs) < MaxRuns
  /\ calc' = analyzeCurrentGame([calc EXCEPT !.analysisTimer = FALSE])
  /\ UNCHANGED <<activeInstances, wasm, reqFen, reqSess, outcome, nextReq, native>>

\* analyzeCurrentGame() called by a component
StoreAnalyzeCurrentGame ==
  /\ calc.fn = "store"
  /\ Len(calc.runs) < MaxRuns
  /\ calc' = analyzeCurrentGame(calc)
  /\ UNCHANGED <<activeInstances, wasm, reqFen, reqSess, outcome, nextReq, native>>

\* removeGame(gameId)
StoreRemoveGame(game) ==
  /\ calc.fn = "store" /\ game \in calc.games
  /\ calc' = [calc EXCEPT !.games = @ \ {game},
                          !.currentGame = IF @ = game THEN NoGame ELSE @]
  /\ UNCHANGED <<activeInstances, wasm, reqFen, reqSess, outcome, nextReq, native>>

\* clearGames()
StoreClearGames ==
  /\ calc.fn = "store"
  /\ calc' = [calc EXCEPT !.games = {}, !.currentGame = NoGame, !.gameAnalysis = NoGame,
                          !.isAnalyzingGame = FALSE, !.analysisProgress = 0]
  /\ UNCHANGED <<activeInstances, wasm, reqFen, reqSess, outcome, nextReq, native>>

\* resetGame()
StoreResetGame ==
  /\ calc.fn = "store"
  /\ calc' = [calc EXCEPT !.games = {}, !.currentGame = NoGame, !.gameAnalysis = NoGame,
                          !.isAnalyzingGame = FALSE, !.analysisProgress = 0]
  /\ UNCHANGED <<activeInstances, wasm, reqFen, reqSess, outcome, nextReq, native>>

\* the progress callback of run i
StoreProgress(i) ==
  /\ calc.fn = "store" /\ i \in runsInProgress(calc)
  /\ calc.runs[i].ply < StorePositions
  /\ calc' = [calc EXCEPT !.runs[i].ply = @ + 1,
                          !.analysisProgress = progressOf(calc.runs[i].ply + 1, StorePositions)]
  /\ UNCHANGED <<activeInstances, wasm, reqFen, reqSess, outcome, nextReq, native>>

\* analyzeGame of run i returns: the results are stored
StoreResults(i) ==
  /\ calc.fn = "store" /\ i \in runsInProgress(calc)
  /\ calc' = [calc EXCEPT !.runs[i].pc = "done",
                          !.gameAnalysis = calc.runs[i].game,
                          !.isAnalyzingGame = FALSE, !.analysisProgress = 100]
  /\ UNCHANGED <<activeInstances, wasm, reqFen, reqSess, outcome, nextReq, native>>

\* run i fails (no instance slot, initialize or analyzeGame throws): the catch
StoreRunFails(i) ==
  /\ calc.fn = "store" /\ i \in runsInProgress(calc)
  /\ calc' = [calc EXCEPT !.runs[i].pc = "failed",
                          !.isAnalyzingGame = FALSE, !.analysisProgress = 0]
  /\ UNCHANGED <<activeInstances, wasm, reqFen, reqSess, outcome, nextReq, native>>

\* the chess store with its callers and its analysis runs
StoreNext ==
  \/ \E game \in StoreGames : StoreLoadGame(game)
  \/ StoreAnalysisTimer
  \/ StoreAnalyzeCurrentGame
  \/ \E game \in StoreGames : StoreRemoveGame(game)
  \/ StoreClearGames
  \/ StoreResetGame
  \/ \E i \in 1..MaxRuns : StoreProgress(i)
  \/ \E i \in 1..MaxRuns : StoreResults(i)
  \/ \E i \in 1..MaxRuns : StoreRunFails(i)

(* ------------------------------- RateLimiter ---------------------------- *)

RECURSIVE processQueued(_)
\* refillTokens: while (this.queue.length > 0 && this.tokens > 0)
processQueued(c) ==
  IF c.queue # <<>> /\ c.tokens > 0
    THEN processQueued([c EXCEPT !.queue = Tail(@), !.tokens = @ - 1,
                                 !.granted = Append(@, Head(c.queue)),
                                 !.served = @ \cup {Head(c.queue)}])
    ELSE c

\* refillTokens that adds the tokens and leaves the queue alone
refillTokensOnly(c) ==
  LET tokensToAdd == (c.elapsed * maxRequests) \div timeWindow IN
  IF tokensToAdd > 0
    THEN [c EXCEPT !.tokens = Min(@ + tokensToAdd, maxRequests), !.elapsed = 0]
    ELSE c

\* refillTokens; elapsed is Date.now() - this.lastRefill
refillTokens(c) ==
  LET tokensToAdd == (c.elapsed * maxRequests) \div timeWindow IN
  IF tokensToAdd > 0
    THEN processQueued([c EXCEPT !.tokens = Min(@ + tokensToAdd, maxRequests), !.elapsed = 0])
    ELSE c

\* tryAcquire for the resolve of caller id
tryAcquire(c, id) ==
  LET c1 == refillTokens(c) IN
  IF c1.tokens > 0
    THEN [c1 EXCEPT !.tokens = @ - 1, !.granted = Append(@, id)]
    ELSE [c1 EXCEPT !.queue = Append(@, id)]

\* new RateLimiter(config)
LimiterInit ==
  /\ InitServices
  /\ calc = [fn |-> "limiter", tokens |-> maxRequests, elapsed |-> 0, queue |-> <<>>,
             granted |-> <<>>, served |-> {}, nextId |-> 1, resets |-> 0]

\* a millisecond passes
LimiterTick ==
  /\ calc.fn = "limiter" /\ calc.elapsed < MaxElapsed
  /\ calc' = [calc EXCEPT !.elapsed = @ + 1]
  /\ UNCHANGED <<activeInstances, wasm, reqFen, reqSess, outcome, nextReq, native>>

\* acquire()
LimiterAcquire ==
  /\ calc.fn = "limiter" /\ calc.nextId <= MaxAcquires
  /\ calc' = [tryAcquire(calc, calc.nextId) EXCEPT !.nextId = @ + 1]
  /\ UNCHANGED <<activeInstances, wasm, reqFen, reqSess, outcome, nextReq, native>>

\* the interval callback of startRefillTimer
LimiterRefillTimer ==
  /\ calc.fn = "limiter"
  /\ calc' = refillTokens(calc)
  /\ UNCHANGED <<activeInstances, wasm, reqFen, reqSess, outcome, nextReq, native>>

\* reset()
LimiterReset ==
  /\ calc.fn = "limiter" /\ calc.resets < 1
  /\ calc' = [calc EXCEPT !.tokens = maxRequests, !.elapsed = 0, !.queue = <<>>,
                          !.resets = @ + 1]
  /\ UNCHANGED <<activeInstances, wasm, reqFen, reqSess, outcome, nextReq, native>>

\* one RateLimiter with its callers and its clock
LimiterNext == LimiterTick \/ LimiterAcquire \/ LimiterRefillTimer \/ LimiterReset

\* the Sessions that are asked to analyse
AnalysisSessions == {1}

\* one Session through its whole life, with callers of analyze()
Next ==
  \/ \E s \in AnalysisSessions : Initialize(s)
  \/ \E s \in AnalysisSessions : InitializeNoWorker(s)
  \/ \E s \in AnalysisSessions : CheckReady(s)
  \/ \E s \in AnalysisSessions : UciOk(s)
  \/ \E s \in AnalysisSessions : ReadyOk(s)
  \/ \E s \in AnalysisSessions, fen \in Fens : Analyze(s, fen)
  \/ \E s \in AnalysisSessions, r \in AllReqs : StartTimer(s, r)
  \/ \E s \in AnalysisSessions, r \in AllReqs : WatchdogFire(s, r)
  \/ \E s \in AnalysisSessions, line \in InfoLines : EngineInfo(s, line)
  \/ \E s \in AnalysisSessions, mv \in BestMoves : EngineBestMove(s, mv)
  \/ \E s \in AnalysisSessions : wasm[s].destroyCalls < MaxSessionDestroy /\ Destroy(s)
  \/ \E s \in AnalysisSessions : DestroyTimer(s)

RECURSIVE DestroysUpTo(_)
\* the destroy() calls made so far on Sessions 1..n
DestroysUpTo(n) == IF n = 0 THEN 0 ELSE wasm[n].destroyCalls + DestroysUpTo(n - 1)

\* every Session object created and destroyed against the instance pool
PoolNext ==
  \/ \E s \in Sessions : Initialize(s)
  \/ \E s \in Sessions : InitializeNoWorker(s)
  \/ \E s \in Sessions : CheckReady(s)
  \/ \E s \in Sessions : UciOk(s)
  \/ \E s \in Sessions : ReadyOk(s)
  \/ \E s \in Sessions, r \in AllReqs : StartTimer(s, r)
  \/ \E s \in Sessions, r \in AllReqs : WatchdogFire(s, r)
  \/ \E s \in Sessions, line \in InfoLines : EngineInfo(s, line)
  \/ \E s \in Sessions, mv \in BestMoves : EngineBestMove(s, mv)
  \/ \E s \in Sessions : DestroysUpTo(NumSessions) < MaxDestroy /\ Destroy(s)
  \/ \E s \in Sessions : DestroyTimer(s)

\* the native service through its whole life, with callers of analyze()
NativeNext ==
  \/ \E found \in BOOLEAN : NativeInitialize(found)
  \/ NativeCheckReady
  \/ HandleStockfishInitializeAgain
  \/ NativeUciOk
  \/ NativeReadyOk
  \/ \E fen \in Fens : NativeAnalyze(fen)
  \/ \E r \in Reqs : NativeDelay(r)
  \/ \E r \in Reqs : NativeTimeout(r)
  \/ \E line \in InfoLines : NativeInfo(line)
  \/ \E mv \in BestMoves : NativeBestMove(mv)
  \/ native.destroyCalls < MaxSessionDestroy /\ NativeDestroy
  \/ NativeKillTimer
  \/ NativeExit

\* one raw score reported and handed to callers on either side of the board
ScoreNext ==
  \/ ScoreInfo
  \/ \E v \in Variants, t \in Turns : ScoreBestMove(v, t)

Spec == Init /\ [][Next]_vars
SpecScore == ScoreInit /\ [][ScoreNext]_vars
SpecClassify == ClassifyInit /\ [][ClassifyMove]_vars
SpecAccuracy == AccuracyInit /\ [][ComputeAccuracy]_vars
SpecGame == GameInit /\ [][GameNext]_vars
SpecInfo == InfoInit /\ [][InfoNext]_vars
SpecStore == StoreInit /\ [][StoreNext]_vars
SpecLimiter == LimiterInit /\ [][LimiterNext]_vars
SpecNative == Init /\ [][NativeNext]_vars
SpecPool == Init /\ [][PoolNext]_vars

\* the event loop runs every timer callback that is due; the engine and the
\* callers are under no obligation
FairSpec ==
  /\ Spec
  /\ \A s \in AnalysisSessions :
       /\ WF_vars(CheckReady(s))
       /\ WF_vars(\E r \in AllReqs : StartTimer(s, r))
       /\ WF_vars(\E r \in AllReqs : WatchdogFire(s, r))
       /\ WF_vars(DestroyTimer(s))

(* ------------------------------ claims -------------------------------- *)

\* the elements of a sequence
Range(q) == {q[i] : i \in 1..Len(q)}

\* C1: at most one analysis of a Session is in flight: the requests whose
\* position/go commands were sent and that are still unresolved are never two.
C1_OneInFlight ==
  \A s \in Sessions :
    Cardinality({r \in wasm[s].goSent : outcome[r].kind = "pending"}) <= 1

\* C2: analyze() calls of one Session settle in the order they were queued: when
\* a queued call settles, no call queued before it on that Session is still pending.
C2_SettleInOrder ==
  [][\A r \in Reqs :
       (r < nextReq /\ outcome[r].kind = "pending" /\ outcome'[r].kind # "pending")
         => \A e \in 1..(r - 1) : reqSess[e] = reqSess[r] => outcome'[e].kind # "pending"]_vars

\* C3: destroy() rejects every analyze() call that is queued or in flight with
\* an Engine-Terminated error.
C3_DestroyRejectsPending ==
  [][\A s \in Sessions :
       wasm'[s].destroyCalls > wasm[s].destroyCalls
         => \A r \in (Range(wasm[s].analysisQueue) \cup {wasm[s].resolver}) \cap Reqs :
              outcome'[r].kind = "rejected"]_vars

\* C4: when the watchdog of the in-flight analysis fires on an accumulator without
\* a best move or without an evaluation, the caller gets a timeout failure.
C4_TimeoutOnEmptyAccumulator ==
  [][\A s \in Sessions : \A r \in Reqs :
       (WatchdogFire(s, r) /\ wasm[s].resolver = r /\ ~hasPartial(wasm[s].currentAnalysis))
         => outcome'[r].kind = "rejected"]_vars

\* the watchdog of the in-flight analyze() call has fired and is gone
WatchdogSpent(s) ==
  LET r == wasm[s].resolver IN
  r \in Reqs /\ r \notin wasm[s].startTimers /\ r \notin wasm[s].intervals

\* C6: a timeout of the in-flight analysis does not halt the queue: every request
\* queued behind it is eventually started (unless the Session is destroyed).
C6_QueueSurvivesTimeout ==
  \A s \in AnalysisSessions : \A q \in Reqs :
    (q \in Range(wasm[s].analysisQueue) /\ WatchdogSpent(s))
      ~> (wasm[s].resolver = q \/ wasm[s].destroyCalls > 0)

\* C5: when the time limit of an in-flight analysis passes and its accumulator
\* holds an evaluation and a best move from its own search, the call resolves
\* with that partial result.
C5_WatchdogSalvage ==
  [][\A r \in Reqs :
       (/\ NativeTimeout(r)
        /\ native.resolvers[r] # "none"
        /\ native.engSearch # <<>> /\ Head(native.engSearch) = r
        /\ hasPartial(native.currentAnalysis))
         => outcome'[r].kind = "resolved"]_vars

\* C11: whenever the stockfish-initialize handler answers success the native
\* Session is Configured: its process is there and its handshake is done.
C11_SuccessMeansConfigured ==
  [][(Len(native'.initReplies) > Len(native.initReplies)
        /\ native'.initReplies[Len(native'.initReplies)] = "success")
       => (native'.process /\ native'.isReady)]_vars

\* C12: an initialize() that waits for the handshake does not wait forever: it
\* ends (with a failure, if the acknowledgements never come), unless an
\* acknowledgement arrives or the Session is destroyed.
C12_HandshakeTimesOut ==
  \A s \in AnalysisSessions :
    (wasm[s].initPc = "handshake")
      ~> (wasm[s].initPc # "handshake" \/ wasm[s].isReady \/ wasm[s].destroyCalls > 0)

\* C13: analyze() on a Session whose initialize() has not yet sent the options
\* (or was never admitted, or failed), or that has been destroyed, is rejected as
\* not initialized and changes nothing of the Session: nothing is queued or sent.
C13_NotInitializedRejected ==
  [][\A s \in Sessions : \A r \in Reqs :
       (/\ nextReq = r /\ nextReq' = r + 1 /\ reqSess'[r] = s
        /\ (wasm[s].initPc \in {"none", "refused", "failed", "handshake"}
              \/ wasm[s].destroyCalls > 0))
         => (outcome'[r] = Rejected("Stockfish not initialized") /\ wasm'[s] = wasm[s])]_vars

\* C14: analyze() of the native service with a malformed position is rejected
\* and leaves the service as it was: nothing is queued, nothing is sent.
C14_InvalidPositionFailsFast ==
  [][\A r \in Reqs :
       (/\ nextReq = r /\ nextReq' = r + 1 /\ reqSess'[r] = NativeSession
        /\ ~isValidFEN(reqFen'[r]))
         => (outcome'[r].kind = "rejected" /\ native' = native)]_vars

\* the result service v handed to a caller with side t to move
ResultOf(v, t) == calc.results[<<v, t>>][1]

\* both callers of service v have their results
BothResults(v) == calc.results[<<v, "w">>] # Undefined /\ calc.results[<<v, "b">>] # Undefined

\* C15: for a raw centipawn score the evaluation returned with Black to move is
\* the negation of the one returned for the same raw score with White to move.
C15_CentipawnSymmetry ==
  \A v \in Variants :
    (calc.fn = "score" /\ calc.raw.kind = "cp" /\ BothResults(v))
      => ResultOf(v, "b").evaluation = 0 - ResultOf(v, "w").evaluation

\* both services have returned the raw score cp MaxCp to both callers
C15_Witness ==
  /\ calc.fn = "score" /\ calc.raw = [kind |-> "cp", value |-> MaxCp]
  /\ \A v \in Variants : BothResults(v) /\ ResultOf(v, "w").evaluation = MaxCp
                                          /\ ResultOf(v, "b").evaluation = 0 - MaxCp

\* C16: for a raw score mate N the returned evaluation is positive exactly when
\* White delivers the mate (N > 0 with White to move, N < 0 with Black to move),
\* the evaluation returned with Black to move is the negation of the one returned
\* with White to move, and both results carry the distance |N|.
C16_MateSymmetry ==
  \A v \in Variants :
    (calc.fn = "score" /\ calc.raw.kind = "mate" /\ BothResults(v))
      => /\ (ResultOf(v, "w").evaluation > 0) <=> (calc.raw.value > 0)
         /\ (ResultOf(v, "b").evaluation > 0) <=> (calc.raw.value < 0)
         /\ ResultOf(v, "b").evaluation = 0 - ResultOf(v, "w").evaluation
         /\ ResultOf(v, "w").mate = Some(Abs(calc.raw.value))
         /\ ResultOf(v, "b").mate = Some(Abs(calc.raw.value))

\* C17: parseInfo turns a raw score mate N into the evaluation
\* sign(N) * (10000 - 100 * |N|), before any negation, and keeps |N| as mate.
C17_MateSurrogate ==
  (calc.fn = "score" /\ calc.raw.kind = "mate" /\ calc.parsed)
    => /\ calc.acc.evaluation =
            Some((IF calc.raw.value > 0 THEN 1 ELSE 0 - 1) * (10000 - 100 * Abs(calc.raw.value)))
       /\ calc.acc.mate = Some(Abs(calc.raw.value))

\* the evaluation service v returns, with side t to move, for raw score mate n
MateEvaluation(v, t, n) ==
  Returned(v, t, parseInfo(EmptyAnalysis, ScoreLine([kind |-> "mate", value |-> n]))).evaluation

\* C18: the magnitude of the evaluation returned for a raw mate score is smaller
\* than the one returned, in the same service with the same side to move, for
\* every shorter mate of the same sign.
C18_MateMonotone ==
  \A v \in Variants, t \in Turns :
    (calc.fn = "score" /\ calc.raw.kind = "mate" /\ calc.results[<<v, t>>] # Undefined)
      => \A d \in 1..(Abs(calc.raw.value) - 1) :
           Abs(MateEvaluation(v, t, IF calc.raw.value > 0 THEN d ELSE 0 - d))
             > Abs(ResultOf(v, t).evaluation)

\* C19: the evaluation returned for a raw mate score is within -10000..10000.
C19_MateWithinRange ==
  \A v \in Variants, t \in Turns :
    (calc.fn = "score" /\ calc.raw.kind = "mate" /\ calc.results[<<v, t>>] # Undefined)
      => Abs(ResultOf(v, t).evaluation) <= 10000

\* a value limited to -1000..1000
Clamped(n) == IF n > 1000 THEN 1000 ELSE IF n < 0 - 1000 THEN 0 - 1000 ELSE n

\* the loss of the classified move: |clamp(evalBest) - clamp(evalAfter)|
Loss == Abs(Clamped(calc.best) - Clamped(calc.after))

\* C20: when evalBefore and the clamped evalAfter have the same sign, classifyMove
\* returns best iff loss <= 50, okay iff 50 < loss <= 120, inaccuracy iff
\* 120 < loss <= 250 and blunder iff loss > 250.
C20_LossLadder ==
  (/\ calc.fn = "classify" /\ calc.quality # "none"
   /\ Sign(calc.before) = Sign(Clamped(calc.after)))
    => /\ (calc.quality = "best") <=> (Loss <= 50)
       /\ (calc.quality = "okay") <=> (50 < Loss /\ Loss <= 120)
       /\ (calc.quality = "inaccuracy") <=> (120 < Loss /\ Loss <= 250)
       /\ (calc.quality = "blunder") <=> (Loss > 250)

\* classify(0, 0, 50) has returned best
C20_Witness ==
  /\ calc.fn = "classify" /\ calc.before = 0 /\ calc.after = 0 /\ calc.best = 50
  /\ calc.quality = "best"

\* the quality the loss ladder gives the classified move
Ladder ==
  IF Loss <= 50 THEN "best" ELSE IF Loss <= 120 THEN "okay"
  ELSE IF Loss <= 250 THEN "inaccuracy" ELSE "blunder"

CountOf(q) == Cardinality({i \in 1..Len(calc.qualities) : calc.qualities[i] = q})

\* ten times the sum of the fixed weights 1.0, 0.8, 0.5, 0.0 of those qualities
TenfoldWeight == 10 * CountOf("best") + 8 * CountOf("okay") + 5 * CountOf("inaccuracy")

\* C23: computeAccuracyFromQualities returns 100 for the empty list and otherwise
\* 100 times the weighted mean of the qualities, rounded to the nearest integer
\* (a half going up); the result lies in 0..100.
C23_AccuracyIsRoundedMean ==
  (calc.fn = "accuracy" /\ calc.accuracy # 0 - 1)
    => /\ calc.accuracy \in 0..100
       /\ calc.accuracy =
            IF calc.qualities = <<>> THEN 100
            ELSE (2 * 10 * TenfoldWeight + Len(calc.qualities)) \div (2 * Len(calc.qualities))

\* the plies of the game in hand, and those whose move the running board accepts
Plies == 0..Len(calc.moves)
PlayedPlies == {0} \cup {q \in 1..Len(calc.moves) : calc.moves[q]}

\* the plies whose position analyzeGame has handed to analyze()
Attempted == {calc.asked[k].ply : k \in {j \in 1..Len(calc.asked) : calc.asked[j].stage = "main"}}

\* C24: the k-th progress report of analyzeGame over M moves is (k, M + 1), k
\* never exceeds M + 1, and at return the record has as many entries as the
\* last report says.
C24_ProgressCounts ==
  calc.fn = "game"
    => /\ \A k \in 1..Len(calc.progress) :
            calc.progress[k] = <<k, Len(calc.moves) + 1>> /\ k <= Len(calc.moves) + 1
       /\ (calc.pc = "returned" /\ calc.progress # <<>>)
            => Cardinality(DOMAIN calc.results) = calc.progress[Len(calc.progress)][1]

C24_Witness ==
  /\ calc.fn = "game" /\ calc.pc = "returned" /\ Len(calc.moves) = 2
  /\ Len(calc.progress) = 2 /\ calc.failed # {}

\* C25: a failed analysis of a ply never makes analyzeGame fail: the entry of the
\* ply is missing or has evaluation 0 and depth 0, and when analyzeGame returns
\* every ply whose move could be played has been handed to analyze().
C25_FailureIsAbsorbed ==
  (calc.fn = "game" /\ calc.initialized)
    => /\ calc.pc # "failed"
       /\ \A p \in calc.failed :
            \/ p \notin DOMAIN calc.results
            \/ calc.results[p].evaluation = 0 /\ calc.results[p].depth = 0
       /\ calc.pc = "returned" => Attempted = PlayedPlies
       /\ \A p \in calc.failed : calc.pc = "main" => calc.ply > p

C25_Witness ==
  /\ calc.fn = "game" /\ calc.pc = "returned"
  /\ 1 \in calc.failed /\ 2 \in DOMAIN calc.got

\* the lookahead analyses asked for ply p
LookaheadsOf(p) ==
  {k \in 1..Len(calc.asked) : calc.asked[k].stage = "lookahead" /\ calc.asked[k].ply = p}

\* C26: in every analyzeGame variant, an entry p >= 1 whose analysis succeeded and
\* whose predecessor entry has a best move that can be played is tagged with
\* classifyMove(evaluation of entry p - 1, evaluation of entry p, evaluation of
\* the position after the best move), that position having been analysed at a
\* depth below the main depth, unless that analysis failed; entry 0 has no tag.
C26_LookaheadClassifies ==
  (calc.fn = "game" /\ calc.pc = "returned")
    => /\ 0 \in DOMAIN calc.results => calc.results[0].quality = "none"
       /\ \A p \in DOMAIN calc.results :
            ( /\ p >= 1 /\ p \in DOMAIN calc.got
              /\ (p - 1) \in DOMAIN calc.results
              /\ calc.results[p - 1].bestMove = "e2e4"
              /\ ~(p \in DOMAIN calc.look /\ ~calc.look[p].ok) )
            => /\ \E k \in LookaheadsOf(p) : calc.asked[k].depth < gameDepth(calc.variant)
               /\ p \in DOMAIN calc.look
               /\ calc.results[p].quality =
                    classifyMove(calc.results[p - 1].evaluation, calc.results[p].evaluation,
                                 calc.look[p].evaluation)

\* classification of ply p is skipped: the best move of entry p - 1 cannot be
\* played, or the analysis of the position after it failed
ClassificationSkipped(p) ==
  /\ p >= 1 /\ p \in DOMAIN calc.got
  /\ (p - 1) \in DOMAIN calc.results
  /\ \/ calc.results[p - 1].bestMove # "e2e4"
     \/ p \in DOMAIN calc.look /\ ~calc.look[p].ok

\* C27: when classification of a ply is skipped, its entry is recorded with its
\* own evaluation and no quality tag, progress has been reported for it, and
\* when analyzeGame returns every later ply whose move could be played has been
\* handed to analyze().
C27_SkippedClassification ==
  calc.fn = "game"
    => \A p \in Plies :
         ClassificationSkipped(p)
           => /\ p \in DOMAIN calc.results
              /\ calc.results[p].quality = "none"
              /\ calc.results[p].evaluation = calc.got[p]
              /\ Len(calc.progress) = Cardinality(DOMAIN calc.results)
              /\ calc.pc = "returned" => {q \in PlayedPlies : q > p} \subseteq Attempted
              /\ calc.pc # "failed"

C27_Witness ==
  /\ calc.fn = "game" /\ calc.pc = "returned" /\ calc.variant = "native"
  /\ 1 \in DOMAIN calc.look /\ ~calc.look[1].ok
  /\ 1 \in DOMAIN calc.results /\ 2 \in DOMAIN calc.got

\* C28: the handshake is ordered: isready is on its way only once uciok has come
\* in, and a Session is ready, its options written, only once readyok has come
\* in.
C28_HandshakeOrder ==
  \A s \in AnalysisSessions :
    /\ ~(wasm[s].uciokOwed /\ wasm[s].readyokOwed)
    /\ wasm[s].isReady => ~wasm[s].readyokOwed
    /\ wasm[s].initPc \in {"warmup", "ok"} => ~wasm[s].readyokOwed

\* C29: a bestmove line resolves only the request whose search the engine ended
\* with it: when a request of a sandboxed Session is resolved in the step that
\* takes a bestmove line of the engine, that line belongs to the request's own
\* search.
C29_OwnSearchOnly ==
  [][\A s \in AnalysisSessions : \A r \in AllReqs :
       ( /\ wasm[s].engSearch # <<>>
         /\ wasm'[s].engSearch = Tail(wasm[s].engSearch)
         /\ wasm[s].resolver = r
         /\ outcome[r].kind = "pending" /\ outcome'[r].kind = "resolved" )
       => Head(wasm[s].engSearch) = r]_vars

\* C30: the bestmove line that ends a search resolves the analysis in flight on a
\* sandboxed Session, whatever the accumulator holds; if it holds nothing (no
\* info line was seen) the result has depth 1, evaluation 0 and the move of the
\* bestmove line.
C30_BestMoveAlwaysResolves ==
  [][\A s \in AnalysisSessions : \A r \in AllReqs :
       ( /\ wasm[s].worker /\ wasm'[s].worker
         /\ wasm[s].engSearch # <<>>
         /\ wasm'[s].engSearch = Tail(wasm[s].engSearch)
         /\ wasm[s].resolver = r )
       => /\ outcome'[r].kind = "resolved"
          /\ wasm[s].currentAnalysis = EmptyAnalysis
               => /\ outcome'[r].depth = 1
                  /\ outcome'[r].evaluation = 0
                  /\ outcome'[r].bestMove \in BestMoves]_vars

C30_Witness ==
  \E r \in Reqs :
    /\ outcome[r].kind = "resolved" /\ outcome[r].depth = 1
    /\ outcome[r].evaluation = 0 /\ outcome[r].bestMove \in BestMoves

\* the lines seen so far that carry a depth, a score, a principal variation
WithDepth == {k \in 1..calc.seen : calc.lines[k].depth # Undefined}
WithScore == {k \in 1..calc.seen : calc.lines[k].score # Undefined}
WithPv == {k \in 1..calc.seen : calc.lines[k].pv # ""}

\* the last of some lines
Last(ks) == CHOOSE k \in ks : \A j \in ks : j <= k

DegenerateResult(v, t) == Returned(v, t, EmptyAnalysis)

\* C32: the result of an analysis in which the engine reported a score differs
\* in some field from the result the defaults give when no info line was seen.
C32_DefaultIsDistinguishable ==
  (calc.fn = "info" /\ calc.results # <<>> /\ WithScore # {})
    => \A v \in Variants, t \in Turns : calc.results[<<v, t>>] # DegenerateResult(v, t)

\* C33: once an analysis of a sandboxed Session has been resolved, by its
\* bestmove line or by the watchdog, no watchdog interval of that analysis is
\* armed.
C33_WatchdogDisarmed ==
  \A s \in AnalysisSessions : \A r \in wasm[s].intervals : outcome[r].kind # "resolved"

\* C34: a sandboxed Session has at most one watchdog interval armed, and none
\* once destroy() has been called on it.
C34_OneWatchdog ==
  \A s \in AnalysisSessions :
    /\ Cardinality(wasm[s].intervals) <= 1
    /\ wasm[s].destroyCalls > 0 => wasm[s].intervals = {}

\* C35: activeInstances is never negative and is the number of StockfishService
\* objects that hold a live worker, which therefore never exceeds MAX_INSTANCES.
C35_CounterCountsWorkers ==
  /\ activeInstances >= 0
  /\ activeInstances = Cardinality({s \in Sessions : wasm[s].worker})
  /\ Cardinality({s \in Sessions : wasm[s].worker}) <= MAX_INSTANCES

\* C36: when evalBefore is 0 or the clamped evalAfter is 0 no side changes from
\* winning to losing, and classifyMove returns what the loss ladder gives.
C36_ZeroIsNoSignFlip ==
  (/\ calc.fn = "classify" /\ calc.quality # "none"
   /\ (calc.before = 0 \/ Clamped(calc.after) = 0))
    => calc.quality = Ladder

\* C37: at most one run of analyzeCurrentGame is in progress at any time.
C37_OneRunAtATime ==
  calc.fn = "store" => Cardinality(runsInProgress(calc)) <= 1

\* C38: the gameAnalysis of the chess store is that of the current game, and
\* isAnalyzingGame is set exactly while a run for the current game is in
\* progress.
C38_AnalysisOfCurrentGame ==
  calc.fn = "store"
    => /\ calc.gameAnalysis # NoGame => calc.gameAnalysis = calc.currentGame
       /\ calc.isAnalyzingGame
            <=> \E i \in runsInProgress(calc) : calc.runs[i].game = calc.currentGame

\* C39: classifyMove gives a move and its mirror image, with every evaluation
\* negated, the same quality.
C39_ColourSymmetry ==
  (calc.fn = "classify" /\ calc.quality # "none")
    => calc.quality = classifyMove(0 - calc.before, 0 - calc.after, 0 - calc.best)

\* classify(-100, 50, 45), the mirror image of a lenient sign flip of White's,
\* has returned inaccuracy
C39_Witness ==
  /\ calc.fn = "classify" /\ calc.before = 0 - 100 /\ calc.after = 50 /\ calc.best = 45
  /\ calc.quality = "inaccuracy"

\* C40: the RateLimiter's tokens stay within 0..maxRequests; while a request
\* waits in the queue there is no token, the queue is in order of arrival, and no
\* request that arrived later than a waiting one has been granted a token.
C40_TokenBucketFifo ==
  calc.fn = "limiter"
    => /\ calc.tokens \in 0..maxRequests
       /\ calc.queue # <<>> => calc.tokens = 0
       /\ \A i, j \in 1..Len(calc.queue) : i < j => calc.queue[i] < calc.queue[j]
       /\ \A i \in 1..Len(calc.queue) : \A k \in 1..Len(calc.granted) :
            calc.granted[k] < calc.queue[i]

C40_Witness ==
  /\ calc.fn = "limiter" /\ calc.served # {} /\ calc.queue # <<>> /\ calc.resets = 0

\* the Sessions that hold a pool slot: admitted and not yet released
Holders == {s \in Sessions : wasm[s].admissions > wasm[s].releases}

\* C7: the slot of an admitted Session is released exactly once, however often
\* destroy() is called: never more often than the Session was admitted, and once
\* its worker has been terminated.
C7_SlotReleasedOnce ==
  \A s \in Sessions :
    /\ wasm[s].releases <= wasm[s].admissions
    /\ (wasm[s].admissions = 1 /\ ~wasm[s].worker) => wasm[s].releases = 1

RECURSIVE AdmissionsUpTo(_)
\* the increments of activeInstances made by initialize() of Sessions 1..n
AdmissionsUpTo(n) == IF n = 0 THEN 0 ELSE wasm[n].admissions + AdmissionsUpTo(n - 1)

RECURSIVE ReleasesUpTo(_)
\* the decrements of activeInstances made by destroy() of Sessions 1..n
ReleasesUpTo(n) == IF n = 0 THEN 0 ELSE wasm[n].releases + ReleasesUpTo(n - 1)

\* C8: activeInstances never exceeds MAX_INSTANCES, and no update of it is lost:
\* it is the number of admissions less the number of releases made so far.
C8_CountWithinCeiling ==
  /\ activeInstances <= MAX_INSTANCES
  /\ activeInstances = AdmissionsUpTo(NumSessions) - ReleasesUpTo(NumSessions)

\* a Session was refused while another one held the last slot
C8_Witness ==
  /\ activeInstances = MAX_INSTANCES
  /\ \E s \in Sessions : wasm[s].initPc = "refused"
  /\ \E s \in Sessions : wasm[s].worker

\* C9: while as many Sessions hold a slot as the ceiling allows canCreateInstance()
\* is false, and it is true again once one of them has released its slot.
C9_CeilingClosesAdmission ==
  canCreateInstance <=> Cardinality(Holders) < MAX_INSTANCES

\* C10: initialize() at the ceiling is refused, creates no worker and leaves
\* activeInstances alone, and so does destroy() on a Session never admitted.
C10_RefusedSessionLeavesPool ==
  [][\A s \in Sessions :
       /\ (wasm[s].initPc \in {"none", "refused"} /\ wasm'[s].initPc \notin {"none", "refused"})
            => activeInstances < MAX_INSTANCES
       /\ (wasm[s].initPc = "none" /\ wasm'[s].initPc = "refused")
            => (~wasm'[s].worker /\ activeInstances' = activeInstances
                /\ activeInstances >= MAX_INSTANCES)
       /\ (wasm[s].admissions = 0 /\ wasm'[s].admissions = 0
            /\ wasm'[s].destroyCalls > wasm[s].destroyCalls)
            => (~wasm'[s].worker /\ activeInstances' = activeInstances)]_vars

\* a refused Session has been destroyed while another Session holds the slot
C10_Witness ==
  \E s \in Sessions :
    /\ wasm[s].initPc = "refused"
    /\ wasm[s].destroyCalls > 0
    /\ activeInstances = MAX_INSTANCES

====
